---- MODULE Spec2Model ----
(***************************************************************************)
(* Model of src/vibecoding_coach.py: the VibeCodingTeam coordinator, its   *)
(* three coaches (ConceptCoach.explain, PromptEngineeringCoach.design,     *)
(* ImplementationCoach.implement) and the part of main() that constructs   *)
(* the coordinator and calls it.                                           *)
(*                                                                         *)
(* Text is modelled as a sequence of tokens.  A fixed piece of a Python    *)
(* string literal is one token (named in ASCII after the Korean literal    *)
(* it stands for); an interpolated value contributes its own tokens, so    *)
(* "text A contains text B" is contiguous-subsequence containment.         *)
(*                                                                         *)
(* Environment.  self.model.generate_content is the external service: it   *)
(* returns a response, a response without text, no response, or raises.   *)
(* The progress calls of get_coding_advice (st.markdown, st.spinner) are   *)
(* the statements of its try body that lie outside the three inner try     *)
(* blocks; they either return or raise, which is what reaches the except   *)
(* clause of line 125.  st.error (lines 66, 86, 106, 126) only reports     *)
(* inside a handler and is taken to return.  genai.configure and           *)
(* GenerativeModel(...) in __init__ either return or raise.                *)
(*                                                                         *)
(* A coordinator is constructed either by main() (one call of              *)
(* get_coding_advice, with the dict main() builds from its widgets) or by  *)
(* a host program that calls get_coding_advice up to MaxRuns times, one    *)
(* call after the other, with any category and request (Spec).             *)
(*                                                                         *)
(* SpecDownload is main() on the code-generation form with the external    *)
(* service answering the implementation stage with paragraphs and fenced   *)
(* code blocks: there the implementation text and the language name are    *)
(* sequences of characters, so that the pattern of line 995 and            *)
(* str.lower() act on what they act on in the program.  SpecConcurrent is  *)
(* a host program with two threads whose calls on one coordinator          *)
(* interleave.                                                             *)
(***************************************************************************)
EXTENDS Integers, Sequences, FiniteSets, TLC

(* ---------------------------- bounds ----------------------------------- *)
MaxRuns == 2        \* calls of get_coding_advice made on one coordinator
MaxTextLen == 1     \* longest text the external service / an exception carries
MaxItems == 2       \* paragraphs and code blocks in one implementation text

(* ------------------------- program constants --------------------------- *)
MinApiKeyLen == 20  \* main(): len(api_key) < 20 is rejected

(* --------------------------- text helpers ------------------------------ *)
Rep(tok, n) == [i \in 1..n |-> tok]

Contains(hay, needle) ==
    \E i \in 1..(Len(hay) + 1) :
        /\ i + Len(needle) - 1 <= Len(hay)
        /\ SubSeq(hay, i, i + Len(needle) - 1) = needle

(* dict.__setitem__ on a fresh key / local variable binding *)
Bind(f, k, v) == [x \in (DOMAIN f) \cup {k} |-> IF x = k THEN v ELSE f[x]]

EmptyDict == [x \in {} |-> <<>>]

(* ------------------------- service categories -------------------------- *)
SVC_CONCEPT  == "svc_concept_understanding"   \* line 157
SVC_PROJECT  == "svc_project_design"          \* line 159
SVC_CODE     == "svc_code_generation"         \* line 161
SVC_LEARNING == "svc_learning_plan"           \* line 163
SVC_OTHER    == "svc_unrecognized"            \* any other tag: the else branch

KnownServices == {SVC_CONCEPT, SVC_PROJECT, SVC_CODE, SVC_LEARNING}
ServiceTypes  == KnownServices \cup {SVC_OTHER}

(* ----------------------------- requests -------------------------------- *)
(* input_data is either a dict from field names to text, or a value that   *)
(* is not a mapping (None): [isdict |-> FALSE].                            *)
FieldOrder == << "question", "experience_level",
                 "code_request", "programming_language", "complexity",
                 "specifics",
                 "project_description", "tech_stack", "project_scale",
                 "development_time", "project_constraints",
                 "current_level", "coding_experience", "learning_goals",
                 "preferred_languages", "learning_time", "learning_style" >>

(* the fields the category templates interpolate *)
TemplateFields == { "question", "project_description", "tech_stack",
                    "code_request", "programming_language",
                    "current_level", "learning_goals" }

FieldNames == { FieldOrder[i] : i \in 1..Len(FieldOrder) }

NotADict == [isdict |-> FALSE, d |-> EmptyDict]

DictOf(d) == [isdict |-> TRUE, d |-> d]

(* the (service_type, input_data) pairs a host program calls with: no      *)
(* mapping at all, a dict with no field, a dict of empty strings; a dict   *)
(* of non-empty strings reaches the four known categories through main()   *)
(* and the unrecognized one here                                           *)
HostCalls ==
    (ServiceTypes \X { NotADict,
                       DictOf(EmptyDict),
                       DictOf([f \in TemplateFields |-> <<>>]) })
    \cup { <<SVC_OTHER, DictOf([f \in TemplateFields |-> <<"u1">>])>> }

(* input_data.get(key, ''): raises AttributeError when input_data has no   *)
(* .get; callers test GetRaises first.                                     *)
GetRaises(input_data) == ~ input_data.isdict

(* variant of Get: input_data.get(key), whose default is None *)
Get_default_none(input_data, key) ==
    IF key \in DOMAIN input_data.d THEN input_data.d[key] ELSE <<"None">>

Get(input_data, key) ==
    IF key \in DOMAIN input_data.d THEN input_data.d[key] ELSE <<>>

ATTRIBUTE_ERROR == <<"AttributeError_no_attribute_get">>

(* str(input_data): the dict's repr lists 'key': 'value' pairs *)
RECURSIVE StrItems(_, _, _)
StrItems(d, i, first) ==
    IF i > Len(FieldOrder) THEN <<>>
    ELSE IF FieldOrder[i] \in DOMAIN d
      THEN (IF first THEN <<>> ELSE <<"COMMA">>)
           \o <<"QUOTE", FieldOrder[i], "QUOTE", "COLON", "QUOTE">>
           \o d[FieldOrder[i]] \o <<"QUOTE">>
           \o StrItems(d, i + 1, FALSE)
      ELSE StrItems(d, i + 1, first)

Str(input_data) ==
    IF input_data.isdict
      THEN <<"LBRACE">> \o StrItems(input_data.d, 1, TRUE) \o <<"RBRACE">>
      ELSE <<"None">>

(* ------------------- external text-generation service ------------------ *)
(* One outcome of self.model.generate_content(prompt):                     *)
(*   text          a response whose .text is a string (possibly empty)     *)
(*   null_text     a response whose .text is None                          *)
(*   null_response a falsy response                                        *)
(*   raise         an exception e with str(e) = text                       *)
TextOutcome(t)   == [kind |-> "text", text |-> t]
NullTextOutcome  == [kind |-> "null_text", text |-> <<>>]
NullRespOutcome  == [kind |-> "null_response", text |-> <<>>]
RaiseOutcome(t)  == [kind |-> "raise", text |-> t]

(* str(e) of the exceptions the service raises *)
ExceptionTexts == { <<"e1", "e2">> }

ExternalOutcomes ==
    { TextOutcome(Rep("g", n)) : n \in 0..MaxTextLen }
    \cup { NullTextOutcome, NullRespOutcome }
    \cup { RaiseOutcome(t) : t \in ExceptionTexts }

(* variant of HasText: only the response is tested, not its text *)
HasText_ignores_text(o) == o.kind = "text"

(* the test `response and response.text` of lines 189, 352, 535 *)
HasText(o) == o.kind = "text" /\ o.text # <<>>

NO_RESPONSE_MESSAGE == <<"no_response_from_model_retry">>   \* lines 192, 355, 538

(* --------------------------- ConceptCoach ------------------------------ *)
create_concept_prompt(input_data) ==
    <<"concept_q_head">> \o Get(input_data, "question") \o <<"concept_q_items">>

create_project_concept_prompt(input_data) ==
    <<"concept_project_head">> \o Get(input_data, "project_description")
    \o <<"concept_project_stack">> \o Get(input_data, "tech_stack")
    \o <<"concept_project_items">>

create_code_concept_prompt(input_data) ==
    <<"concept_code_head">> \o Get(input_data, "code_request")
    \o <<"concept_code_language">> \o Get(input_data, "programming_language")
    \o <<"concept_code_items">>

create_learning_concept_prompt(input_data) ==
    <<"concept_learning_head">> \o Get(input_data, "current_level")
    \o <<"concept_learning_goals">> \o Get(input_data, "learning_goals")
    \o <<"concept_learning_items">>

create_general_concept_prompt(input_data, service_type) ==
    <<"concept_general_head", service_type, "concept_general_request">>
    \o Str(input_data) \o <<"concept_general_tail">>

(* variant of explain_category_prompt: an unrecognized category falls back *)
(* to the concept template                                                 *)
explain_category_prompt_concept_default(service_type, input_data) ==
    CASE service_type = SVC_PROJECT  -> create_project_concept_prompt(input_data)
      [] service_type = SVC_CODE     -> create_code_concept_prompt(input_data)
      [] service_type = SVC_LEARNING -> create_learning_concept_prompt(input_data)
      [] OTHER -> create_concept_prompt(input_data)

(* lines 157-166: the category dispatch of explain *)
explain_category_prompt(service_type, input_data) ==
    CASE service_type = SVC_CONCEPT  -> create_concept_prompt(input_data)
      [] service_type = SVC_PROJECT  -> create_project_concept_prompt(input_data)
      [] service_type = SVC_CODE     -> create_code_concept_prompt(input_data)
      [] service_type = SVC_LEARNING -> create_learning_concept_prompt(input_data)
      [] OTHER -> create_general_concept_prompt(input_data, service_type)

(* the four category templates call input_data.get; the generic one only   *)
(* calls str(input_data)                                                   *)
PromptBuildRaises(service_type, input_data) ==
    service_type \in KnownServices /\ GetRaises(input_data)

(* lines 169-184: persona preamble and output-format directive *)
explain_prompt(service_type, input_data) ==
    <<"concept_coach_persona">>
    \o explain_category_prompt(service_type, input_data)
    \o <<"concept_coach_format">>

(* variant of explain_return: the error text leaves out str(e) *)
explain_return_drops_detail(o) ==
    IF o.kind = "raise" THEN <<"concept_error_prefix">>
    ELSE IF HasText(o) THEN o.text
    ELSE NO_RESPONSE_MESSAGE

(* lines 187-194 *)
explain_return(o) ==
    IF o.kind = "raise" THEN <<"concept_error_prefix">> \o o.text
    ELSE IF HasText(o) THEN o.text
    ELSE NO_RESPONSE_MESSAGE

(* ----------------------- PromptEngineeringCoach ------------------------ *)
create_concept_prompt_design(previous_explanation, input_data) ==
    <<"design_q_items">> \o Get(input_data, "question")

create_project_prompt_design(previous_explanation, input_data) ==
    <<"design_project_items">> \o Get(input_data, "project_description")
    \o <<"design_project_stack">> \o Get(input_data, "tech_stack")

create_code_prompt_design(previous_explanation, input_data) ==
    <<"design_code_items_1">> \o Get(input_data, "programming_language")
    \o <<"design_code_items_2">> \o Get(input_data, "code_request")
    \o <<"design_code_language">> \o Get(input_data, "programming_language")

create_learning_prompt_design(previous_explanation, input_data) ==
    <<"design_learning_items">> \o Get(input_data, "current_level")
    \o <<"design_learning_goals">> \o Get(input_data, "learning_goals")

create_general_prompt_design(previous_explanation, input_data, service_type) ==
    <<"design_general_head", service_type, "design_general_request">>
    \o Str(input_data) \o <<"design_general_tail">>

(* lines 316-325 *)
design_category_prompt(previous_explanation, service_type, input_data) ==
    CASE service_type = SVC_CONCEPT ->
           create_concept_prompt_design(previous_explanation, input_data)
      [] service_type = SVC_PROJECT ->
           create_project_prompt_design(previous_explanation, input_data)
      [] service_type = SVC_CODE ->
           create_code_prompt_design(previous_explanation, input_data)
      [] service_type = SVC_LEARNING ->
           create_learning_prompt_design(previous_explanation, input_data)
      [] OTHER ->
           create_general_prompt_design(previous_explanation, input_data, service_type)

(* lines 328-347: the previous explanation is interpolated between the    *)
(* two section markers                                                     *)
design_prompt(previous_explanation, service_type, input_data) ==
    <<"prompt_coach_persona", "explanation_begin">>
    \o previous_explanation
    \o <<"explanation_end">>
    \o design_category_prompt(previous_explanation, service_type, input_data)
    \o <<"prompt_coach_format">>

(* lines 350-357 *)
design_return(o) ==
    IF o.kind = "raise" THEN <<"design_error_prefix">> \o o.text
    ELSE IF HasText(o) THEN o.text
    ELSE NO_RESPONSE_MESSAGE

(* ------------------------- ImplementationCoach ------------------------- *)
create_concept_implementation(previous_design, input_data) ==
    <<"implement_q_items">> \o Get(input_data, "question")

create_project_implementation(previous_design, input_data) ==
    <<"implement_project_items">> \o Get(input_data, "project_description")
    \o <<"implement_project_stack">> \o Get(input_data, "tech_stack")

create_code_implementation(previous_design, input_data) ==
    <<"implement_code_items">> \o Get(input_data, "code_request")
    \o <<"implement_code_language">> \o Get(input_data, "programming_language")

create_learning_implementation(previous_design, input_data) ==
    <<"implement_learning_items">> \o Get(input_data, "current_level")
    \o <<"implement_learning_goals">> \o Get(input_data, "learning_goals")

create_general_implementation(previous_design, input_data, service_type) ==
    <<"implement_general_head", service_type, "implement_general_request">>
    \o Str(input_data) \o <<"implement_general_tail">>

(* lines 492-501 *)
implement_category_prompt(previous_design, service_type, input_data) ==
    CASE service_type = SVC_CONCEPT ->
           create_concept_implementation(previous_design, input_data)
      [] service_type = SVC_PROJECT ->
           create_project_implementation(previous_design, input_data)
      [] service_type = SVC_CODE ->
           create_code_implementation(previous_design, input_data)
      [] service_type = SVC_LEARNING ->
           create_learning_implementation(previous_design, input_data)
      [] OTHER ->
           create_general_implementation(previous_design, input_data, service_type)

(* lines 504-530 *)
implement_prompt(previous_design, service_type, input_data) ==
    <<"implementation_coach_persona", "analysis_begin">>
    \o previous_design
    \o <<"analysis_end">>
    \o implement_category_prompt(previous_design, service_type, input_data)
    \o <<"implementation_coach_format">>

(* lines 533-540 *)
implement_return(o) ==
    IF o.kind = "raise" THEN <<"implement_error_prefix">> \o o.text
    ELSE IF HasText(o) THEN o.text
    ELSE NO_RESPONSE_MESSAGE

(* ------------- main(): the download of the generated code ------------- *)
(* Texts that are searched or case-converted are sequences of characters.  *)
LF == "LF"                      \* the newline character
BT == "BT"                      \* the backtick character
FENCE == <<BT, BT, BT>>         \* the fence of a code block

UpperCase ==
  << "A", "B", "C", "D", "E", "F", "G", "H", "I", "J", "K", "L", "M",
     "N", "O", "P", "Q", "R", "S", "T", "U", "V", "W", "X", "Y", "Z" >>
LowerCase ==
  << "a", "b", "c", "d", "e", "f", "g", "h", "i", "j", "k", "l", "m",
     "n", "o", "p", "q", "r", "s", "t", "u", "v", "w", "x", "y", "z" >>
Digits == {"0", "1", "2", "3", "4", "5", "6", "7", "8", "9"}

(* the class \w of the pattern of line 995 *)
IsWord(c) ==
    \/ \E i \in 1..Len(UpperCase) : c = UpperCase[i] \/ c = LowerCase[i]
    \/ c \in Digits
    \/ c = "_"

StartsWith(s, i, w) ==
    /\ i + Len(w) - 1 <= Len(s)
    /\ SubSeq(s, i, i + Len(w) - 1) = w

(* the characters \w+ takes at position i when it takes all it can *)
RECURSIVE WordRun(_, _)
WordRun(s, i) ==
    IF i <= Len(s) /\ IsWord(s[i]) THEN 1 + WordRun(s, i + 1) ELSE 0

NoMatch == [found |-> FALSE, body |-> <<>>, next |-> 0]

(* line 995, one attempt of the pattern at position i (F the fence):      *)
(*     F(?:\w+)?\n([\s\S]+?)\nF                                            *)
(* the fence, then the longest run of word characters (a shorter run or    *)
(* none leaves a word character where the newline must stand), a newline,  *)
(* the shortest body of at least one character that is followed by a       *)
(* newline and a fence.  next is the position after the match.             *)
MatchAt(s, i) ==
    IF ~ StartsWith(s, i, FENCE) THEN NoMatch
    ELSE LET p == i + Len(FENCE) + WordRun(s, i + Len(FENCE)) IN
         IF ~ (p <= Len(s) /\ s[p] = LF) THEN NoMatch
         ELSE LET ends == { e \in (p + 1)..Len(s) :
                              StartsWith(s, e + 1, <<LF>> \o FENCE) } IN
              IF ends = {} THEN NoMatch
              ELSE LET e == CHOOSE x \in ends : \A y \in ends : x <= y IN
                   [found |-> TRUE, body |-> SubSeq(s, p + 1, e),
                    next |-> e + Len(FENCE) + 2]

(* line 996: code_pattern.findall(...) from position i on, the matches     *)
(* taken left to right without overlap, each giving its group              *)
RECURSIVE findall(_, _)
findall(s, i) ==
    IF i > Len(s) THEN <<>>
    ELSE LET m == MatchAt(s, i) IN
         IF m.found THEN <<m.body>> \o findall(s, m.next)
         ELSE findall(s, i + 1)

(* str.join *)
RECURSIVE Join(_, _)
Join(sep, parts) ==
    IF parts = <<>> THEN <<>>
    ELSE IF Len(parts) = 1 THEN parts[1]
    ELSE parts[1] \o sep \o Join(sep, Tail(parts))

(* str.lower, on the ASCII letters *)
Lower(c) ==
    IF \E i \in 1..Len(UpperCase) : c = UpperCase[i]
      THEN LowerCase[CHOOSE i \in 1..Len(UpperCase) : c = UpperCase[i]]
      ELSE c

(* variant of lower: the text is left as it is *)
lower_keeps_case(s) == s

lower(s) == [i \in 1..Len(s) |-> Lower(s[i])]

(* lines 1134-1157: the dict of get_file_extension, as <<key, value>> pairs *)
extensions ==
    {
      <<<<"p", "y", "t", "h", "o", "n">>, "py">>,
      <<<<"j", "a", "v", "a", "s", "c", "r", "i", "p", "t">>, "js">>,
      <<<<"t", "y", "p", "e", "s", "c", "r", "i", "p", "t">>, "ts">>,
      <<<<"j", "a", "v", "a">>, "java">>,
      <<<<"c", "#">>, "cs">>,
      <<<<"g", "o">>, "go">>,
      <<<<"r", "u", "b", "y">>, "rb">>,
      <<<<"p", "h", "p">>, "php">>,
      <<<<"s", "w", "i", "f", "t">>, "swift">>,
      <<<<"k", "o", "t", "l", "i", "n">>, "kt">>,
      <<<<"h", "t", "m", "l">>, "html">>,
      <<<<"c", "s", "s">>, "css">>,
      <<<<"s", "q", "l">>, "sql">>,
      <<<<"r">>, "r">>,
      <<<<"r", "u", "s", "t">>, "rs">>,
      <<<<"c", "+", "+">>, "cpp">>,
      <<<<"c">>, "c">>,
      <<<<"s", "c", "a", "l", "a">>, "scala">>,
      <<<<"d", "a", "r", "t">>, "dart">>,
      <<<<"p", "o", "w", "e", "r", "s", "h", "e", "l", "l">>, "ps1">>,
      <<<<"b", "a", "s", "h">>, "sh">>,
      <<<<"p", "e", "r", "l">>, "pl">>
    }

DEFAULT_EXTENSION == "txt"      \* line 1158

(* line 1158: extensions.get(language.lower(), "txt") *)
get_file_extension(language) ==
    IF \E e \in extensions : e[1] = lower(language)
      THEN (CHOOSE e \in extensions : e[1] = lower(language))[2]
      ELSE DEFAULT_EXTENSION

(* lines 995-1017: the download button of the code-generation block *)
CodeDownload(implementation_content, programming_language) ==
    LET code_matches == findall(implementation_content, 1) IN
    IF code_matches # <<>>
      THEN [state |-> "offered",
            data |-> Join(<<LF, LF>>, code_matches),
            file_name |-> <<"vibe_coding_">> \o lower(programming_language)
                          \o <<"_code", ".">>
                          \o <<get_file_extension(programming_language)>>]
      ELSE [state |-> "none", data |-> <<>>, file_name |-> <<>>]

(* the implementation text of the external service: up to MaxItems items,  *)
(* each a paragraph or a fenced code block with a language tag (none, a    *)
(* word, a name with a character outside \w) and a body                    *)
Paragraph(t)   == [kind |-> "paragraph", tag |-> <<>>, body |-> t]
Block(tag, b)  == [kind |-> "block", tag |-> tag, body |-> b]

BlockTags == { <<>>, <<"p", "y">>, <<"c", "#">> }
BlockBodies == { <<"a">>, <<"b", LF, "c">> }

ReplyItems ==
    { Paragraph(<<"x">>) } \cup { Block(t, b) : t \in BlockTags, b \in BlockBodies }

Replies == UNION { [1..n -> ReplyItems] : n \in 0..MaxItems }

RenderItem(it) ==
    IF it.kind = "block"
      THEN FENCE \o it.tag \o <<LF>> \o it.body \o <<LF>> \o FENCE
      ELSE it.body

(* the items one per line *)
Render(items) == Join(<<LF>>, [i \in 1..Len(items) |-> RenderItem(items[i])])

(* lines 951-954: the values of the language selectbox *)
SelectboxLanguages ==
    {
      <<"P", "y", "t", "h", "o", "n">>,
      <<"J", "a", "v", "a", "S", "c", "r", "i", "p", "t">>,
      <<"J", "a", "v", "a">>,
      <<"C", "#">>,
      <<"G", "o">>,
      <<"R", "u", "b", "y">>,
      <<"P", "H", "P">>,
      <<"T", "y", "p", "e", "S", "c", "r", "i", "p", "t">>,
      <<"S", "w", "i", "f", "t">>,
      <<"K", "o", "t", "l", "i", "n">>
    }

(* lines 956-957: names typed into the text input of the last choice *)
TypedLanguages ==
    {
      <<"p", "y", "t", "h", "o", "n">>,
      <<"P", "Y", "T", "H", "O", "N">>,
      <<"E", "l", "i", "x", "i", "r">>,
      <<"c", "+", "+">>,
      <<"R", "u", "s", "t">>
    }

LanguageNames == SelectboxLanguages \cup TypedLanguages

(* ------------------ stage tables used by the coordinator --------------- *)
Stages == 1..3

CoachName(k) ==
    CASE k = 1 -> "ConceptCoach"
      [] k = 2 -> "PromptEngineeringCoach"
      [] k = 3 -> "ImplementationCoach"

StepAction(k) ==
    CASE k = 1 -> "concept_explanation"
      [] k = 2 -> "prompt_design"
      [] k = 3 -> "implementation"

(* the local variable of get_coding_advice that receives stage k's text *)
LocalName(k) ==
    CASE k = 1 -> "concept_explanation"
      [] k = 2 -> "prompt_design"
      [] k = 3 -> "final_implementation"

(* lines 67, 87, 107: the coordinator's own fallback texts *)
StageFallback(k) ==
    CASE k = 1 -> <<"concept_analysis_failed_retry">>
      [] k = 2 -> <<"prompt_design_failed_retry">>
      [] k = 3 -> <<"implementation_failed_retry">>

SYSTEM_ERROR_MESSAGE == <<"system_error_check_api_key_retry">>   \* lines 128-130

(* variant of PriorOutput: implement is handed the explanation instead of  *)
(* the design                                                              *)
PriorOutput_wrong_variable(k, locals) ==
    CASE k = 1 -> <<>>
      [] k = 2 -> locals["concept_explanation"]
      [] k = 3 -> locals["concept_explanation"]

(* lines 59, 79, 99: the argument the coordinator passes as prior output *)
PriorOutput(k, locals) ==
    CASE k = 1 -> <<>>
      [] k = 2 -> locals["concept_explanation"]
      [] k = 3 -> locals["prompt_design"]

(* the prompt stage k hands to self.model.generate_content *)
StagePrompt(k, locals, service_type, input_data) ==
    CASE k = 1 -> explain_prompt(service_type, input_data)
      [] k = 2 -> design_prompt(PriorOutput(2, locals), service_type, input_data)
      [] k = 3 -> implement_prompt(PriorOutput(3, locals), service_type, input_data)

(* what stage k returns for an outcome of its external call *)
StageReturn(k, o) ==
    CASE k = 1 -> explain_return(o)
      [] k = 2 -> design_return(o)
      [] k = 3 -> implement_return(o)

(* variant of SuccessStep: every step names the first coach *)
SuccessStep_same_coach(k) ==
    [coach |-> CoachName(1), action |-> StepAction(k), status |-> "success"]

(* lines 60-64, 80-84, 100-104 *)
SuccessStep(k) ==
    [coach |-> CoachName(k), action |-> StepAction(k), status |-> "success"]

(* variant of ErrorStep: the record leaves out the error detail *)
ErrorStep_no_detail(k, e) ==
    [coach |-> CoachName(k), action |-> StepAction(k), status |-> "error",
     error |-> <<>>]

(* lines 68-73, 88-93, 108-113 *)
ErrorStep(k, e) ==
    [coach |-> CoachName(k), action |-> StepAction(k), status |-> "error",
     error |-> e]

(* lines 48-53 *)
NewWorkflowLog(service_type, now) ==
    [service_type |-> service_type,
     timestamp |-> now,
     coaches_involved |-> <<"ConceptCoach", "PromptEngineeringCoach",
                            "ImplementationCoach">>,
     steps |-> <<>>]

(* variant of AdviceResult: the implementation key is left out *)
AdviceResult_missing_key(locals) ==
    [concept |-> locals["concept_explanation"],
     prompt |-> locals["prompt_design"]]

(* variant of AdviceResult: the first two texts are stored under each      *)
(* other's key                                                             *)
AdviceResult_swapped(locals) ==
    [concept |-> locals["prompt_design"],
     prompt |-> locals["concept_explanation"],
     implementation |-> locals["final_implementation"]]

(* lines 119-123 *)
AdviceResult(locals) ==
    [concept |-> locals["concept_explanation"],
     prompt |-> locals["prompt_design"],
     implementation |-> locals["final_implementation"]]

(* variant of SystemErrorResult: the last field keeps a stage fallback *)
SystemErrorResult_mixed ==
    [concept |-> SYSTEM_ERROR_MESSAGE,
     prompt |-> SYSTEM_ERROR_MESSAGE,
     implementation |-> StageFallback(3)]

(* lines 127-131 *)
SystemErrorResult ==
    [concept |-> SYSTEM_ERROR_MESSAGE,
     prompt |-> SYSTEM_ERROR_MESSAGE,
     implementation |-> SYSTEM_ERROR_MESSAGE]

(* ============================== state ================================== *)
Runs == 1..MaxRuns

VARIABLES
    mainPc,         \* position of main(): start, stopped, form, end,
                    \*   construct, call, running, shown, crashed, unused
    form,           \* main(): the service and input_data built from the widgets
    team,           \* the VibeCodingTeam instance: state, api_key, owner
    workflow_logs,  \* self.workflow_logs
    clock,          \* datetime.now(), as a logical clock
    received,       \* what the caller last obtained: nothing, exception, result
    pc,             \* per call of get_coding_advice: [loc, stage]
    service_type,   \* per call: argument service_type
    input_data,     \* per call: argument input_data
    workflow_log,   \* per call: local workflow_log
    locals,         \* per call: the bound result variables
    result,         \* per call: the returned dict (empty before the return)
    caught,         \* per call: the top-level except clause ran
    trace,          \* per call, history: stage calls and their completions
    sent,           \* per call, history: stage -> prompt given to the service
    outcome,        \* per call: stage -> outcome of its external call, kept
                    \*   until the coordinator moves on from that stage
    returned,       \* per call, history: stage -> text the stage returned
    reply,          \* history: the paragraphs and fenced blocks the external
                    \*   service wrote as the implementation text
    download        \* main(): the download button: state, data, file_name

mainVars == <<mainPc, form>>
teamVars == <<team, workflow_logs>>
histVars == <<trace, sent, outcome, returned>>
callVars == <<pc, service_type, input_data, workflow_log, locals, result, caught>>
downloadVars == <<reply, download>>
vars == <<mainPc, form, team, workflow_logs, clock, received,
          pc, service_type, input_data, workflow_log, locals, result, caught,
          trace, sent, outcome, returned,
          reply, download>>

At(loc, k) == [loc |-> loc, stage |-> k]
Idle == At("idle", 0)

NoForm == [service |-> "", input_data |-> NotADict]
NoTeam == [state |-> "none", api_key |-> <<>>, owner |-> "none"]
NoLog  == NewWorkflowLog("", 0)
Nothing == [kind |-> "nothing", value |-> EmptyDict]
NoDownload == [state |-> "unset", data |-> <<>>, file_name |-> <<>>]

Init ==
    /\ mainPc = "start"
    /\ form = NoForm
    /\ team = NoTeam
    /\ workflow_logs = <<>>
    /\ clock = 0
    /\ received = Nothing
    /\ pc = [r \in Runs |-> Idle]
    /\ service_type = [r \in Runs |-> ""]
    /\ input_data = [r \in Runs |-> NotADict]
    /\ workflow_log = [r \in Runs |-> NoLog]
    /\ locals = [r \in Runs |-> EmptyDict]
    /\ result = [r \in Runs |-> EmptyDict]
    /\ caught = [r \in Runs |-> FALSE]
    /\ trace = [r \in Runs |-> <<>>]
    /\ sent = [r \in Runs |-> EmptyDict]
    /\ outcome = [r \in Runs |-> EmptyDict]
    /\ returned = [r \in Runs |-> EmptyDict]
    /\ reply = <<>>
    /\ download = NoDownload

(* ============================= main() ================================== *)
ApiKeys == { Rep("k", n) : n \in {0, MinApiKeyLen - 1, MinApiKeyLen} }

FormTexts == { <<>>, <<"u1">> }

(* the key a host program passes to VibeCodingTeam(api_key) *)
HostApiKeys == { Rep("k", MinApiKeyLen) }

(* lines 817-828: the sidebar stops the script on an empty or short key *)
main_api_key(key) ==
    /\ mainPc = "start"
    /\ team.owner = "none"
    /\ IF key = <<>> \/ Len(key) < MinApiKeyLen
         THEN /\ mainPc' = "stopped"
              /\ team' = team
         ELSE /\ mainPc' = "form"
              /\ team' = [team EXCEPT !.owner = "main", !.api_key = key]
    /\ UNCHANGED <<downloadVars, form, workflow_logs, clock, received, callVars, histVars>>

(* variant of RequiredFilled: only the first field is tested *)
RequiredFilled_first_only(service, a, b) == a # <<>>

(* lines 920, 970, 1047, 1106: the test guarding the construction *)
RequiredFilled(service, a, b) ==
    CASE service = SVC_CONCEPT -> a # <<>>
      [] OTHER -> a # <<>> /\ b # <<>>

(* lines 925-928, 975-980, 1052-1058, 1111-1118: the dict main() builds *)
MainInputData(service, a, b) ==
    CASE service = SVC_CONCEPT ->
           DictOf([f \in {"question", "experience_level"} |->
                     IF f = "question" THEN a ELSE <<"selected_level">>])
      [] service = SVC_CODE ->
           DictOf([f \in {"code_request", "programming_language",
                          "complexity", "specifics"} |->
                     CASE f = "code_request" -> a
                       [] f = "programming_language" -> b
                       [] f = "complexity" -> <<"selected_complexity">>
                       [] OTHER -> <<>>])
      [] service = SVC_PROJECT ->
           DictOf([f \in {"project_description", "tech_stack", "project_scale",
                          "development_time", "project_constraints"} |->
                     CASE f = "project_description" -> a
                       [] f = "tech_stack" -> b
                       [] f = "project_scale" -> <<"selected_scale">>
                       [] f = "development_time" -> <<"selected_time">>
                       [] OTHER -> <<>>])
      [] service = SVC_LEARNING ->
           DictOf([f \in {"current_level", "coding_experience",
                          "learning_goals", "preferred_languages",
                          "learning_time", "learning_style"} |->
                     CASE f = "learning_goals" -> a
                       [] f = "preferred_languages" -> b
                       [] f = "current_level" -> <<"selected_level">>
                       [] f = "coding_experience" -> <<"selected_experience">>
                       [] f = "learning_time" -> <<"selected_hours">>
                       [] OTHER -> <<>>])

(* lines 886-889 and the four `if st.button(...)` blocks *)
main_form(service, a, b, clicked) ==
    /\ mainPc = "form"
    /\ IF clicked /\ RequiredFilled(service, a, b)
         THEN /\ mainPc' = "construct"
              /\ form' = [service |-> service,
                          input_data |-> MainInputData(service, a, b)]
         ELSE /\ mainPc' = "end"
              /\ form' = form
    /\ UNCHANGED <<downloadVars, teamVars, clock, received, callVars, histVars>>

(* ======================= VibeCodingTeam.__init__ ======================= *)
(* lines 25-35 when genai.configure and GenerativeModel(...) return *)
TeamConstructed(key, owner) == [state |-> "ready", api_key |-> key, owner |-> owner]

(* lines 26-27 raise: __init__ has no handler, nor has its caller *)
TeamInitRaised(key, owner) == [state |-> "init_raised", api_key |-> key, owner |-> owner]

ExceptionReceived == [kind |-> "exception", value |-> EmptyDict]

(* main(): coach_team = VibeCodingTeam(api_key), lines 922, 972, 1049, 1108 *)
main_construct ==
    /\ mainPc = "construct"
    /\ team' = TeamConstructed(team.api_key, "main")
    /\ workflow_logs' = <<>>
    /\ mainPc' = "call"
    /\ UNCHANGED <<downloadVars, form, clock, received, callVars, histVars>>

main_construct_raises ==
    /\ mainPc = "construct"
    /\ team' = TeamInitRaised(team.api_key, "main")
    /\ received' = ExceptionReceived
    /\ mainPc' = "crashed"
    /\ UNCHANGED <<downloadVars, form, workflow_logs, clock, callVars, histVars>>

(* a host program other than main() constructing the coordinator *)
host_construct(key) ==
    /\ mainPc = "start"
    /\ team.owner = "none"
    /\ team' = TeamConstructed(key, "host")
    /\ workflow_logs' = <<>>
    /\ mainPc' = "unused"
    /\ UNCHANGED <<downloadVars, form, clock, received, callVars, histVars>>

host_construct_raises(key) ==
    /\ mainPc = "start"
    /\ team.owner = "none"
    /\ team' = TeamInitRaised(key, "host")
    /\ received' = ExceptionReceived
    /\ mainPc' = "unused"
    /\ UNCHANGED <<downloadVars, form, workflow_logs, clock, callVars, histVars>>

(* ================== VibeCodingTeam.get_coding_advice =================== *)
Call(k)     == [ev |-> "call", stage |-> k]
Returned(k) == [ev |-> "return", stage |-> k]
Raised(k)   == [ev |-> "raise", stage |-> k]

NoCallActive == \A q \in Runs : pc[q].loc \in {"idle", "done"}

(* calls use the slots in order *)
NextSlot(r) == /\ pc[r] = Idle
               /\ \A q \in Runs : q < r => pc[q] # Idle

(* lines 37-53: entry and the creation of the local workflow_log *)
Enter(r, st, data) ==
    /\ team.state = "ready"
    /\ NextSlot(r)
    /\ clock' = clock + 1
    /\ pc' = [pc EXCEPT ![r] = At("progress", 1)]
    /\ service_type' = [service_type EXCEPT ![r] = st]
    /\ input_data' = [input_data EXCEPT ![r] = data]
    /\ workflow_log' = [workflow_log EXCEPT ![r] = NewWorkflowLog(st, clock')]
    /\ received' = Nothing
    /\ UNCHANGED <<downloadVars, teamVars, locals, result, caught, histVars>>

(* a call made when no other call on the coordinator is under way *)
Begin(r, st, data) ==
    /\ NoCallActive
    /\ Enter(r, st, data)

(* main(): result = coach_team.get_coding_advice(service, input_data) *)
main_call(r) ==
    /\ mainPc = "call"
    /\ Begin(r, form.service, form.input_data)
    /\ mainPc' = "running"
    /\ form' = form

(* a host program calling get_coding_advice on its coordinator *)
host_call(r, st, data) ==
    /\ team.owner = "host"
    /\ Begin(r, st, data)
    /\ UNCHANGED mainVars

(* a thread of a host program calling get_coding_advice, whether or not    *)
(* another thread's call on the same coordinator is under way              *)
host_call_concurrent(r, st, data) ==
    /\ team.owner = "host"
    /\ Enter(r, st, data)
    /\ UNCHANGED mainVars

(* lines 56-57, 76-77, 96-97: the progress heading and the spinner of the  *)
(* next stage are shown                                                    *)
progress(r) ==
    /\ pc[r].loc = "progress"
    /\ pc' = [pc EXCEPT ![r] = At("invoke", pc[r].stage)]
    /\ outcome' = [outcome EXCEPT ![r] = EmptyDict]
    /\ UNCHANGED <<downloadVars, mainVars, teamVars, clock, received, service_type,
                   input_data, workflow_log, locals, result, caught,
                   trace, sent, returned>>

(* a statement of the try body outside the three inner try blocks raises   *)
(* (st.markdown, st.spinner); lines 125-131, the top-level except clause,  *)
(* report it and return the system-error dict                              *)
top_level_except(r) ==
    /\ pc[r].loc \in {"progress", "finish"}
    /\ caught' = [caught EXCEPT ![r] = TRUE]
    /\ result' = [result EXCEPT ![r] = SystemErrorResult]
    /\ pc' = [pc EXCEPT ![r] = At("returned", pc[r].stage)]
    /\ outcome' = [outcome EXCEPT ![r] = EmptyDict]
    /\ UNCHANGED <<downloadVars, mainVars, teamVars, clock, received, service_type,
                   input_data, workflow_log, locals, trace, sent, returned>>

(* variant of AfterStage: after stage 1 or 2 the coordinator goes nowhere *)
AfterStage_halts(k) == IF k < 3 THEN At("halted", k) ELSE At("finish", 3)

(* variant of AfterStage: the coordinator goes to its return after stage 1 *)
AfterStage_skips(k) == IF k = 2 THEN At("progress", 3) ELSE At("finish", 3)

AfterStage(k) == IF k < 3 THEN At("progress", k + 1) ELSE At("finish", 3)

(* variant of stage_send: the template reads each field with setdefault,   *)
(* which stores the default in the request                                 *)
stage_send_setdefault(r) ==
    LET k == pc[r].stage
        filled == IF input_data[r].isdict
                    THEN DictOf([f \in (DOMAIN input_data[r].d) \cup TemplateFields |->
                                   Get(input_data[r], f)])
                    ELSE input_data[r]
    IN
    /\ pc[r].loc = "invoke"
    /\ ~ PromptBuildRaises(service_type[r], input_data[r])
    /\ sent' = [sent EXCEPT ![r] =
                  Bind(@, k, StagePrompt(k, locals[r], service_type[r], input_data[r]))]
    /\ trace' = [trace EXCEPT ![r] = Append(@, Call(k))]
    /\ pc' = [pc EXCEPT ![r] = At("wait", k)]
    /\ input_data' = [input_data EXCEPT ![r] = filled]
    /\ UNCHANGED <<downloadVars, mainVars, teamVars, clock, received, service_type,
                   workflow_log, locals, result, caught,
                   outcome, returned>>

(* lines 59, 79, 99: the stage method builds its prompt and hands it to    *)
(* self.model.generate_content                                             *)
stage_send(r) ==
    LET k == pc[r].stage IN
    /\ pc[r].loc = "invoke"
    /\ ~ PromptBuildRaises(service_type[r], input_data[r])
    /\ sent' = [sent EXCEPT ![r] =
                  Bind(@, k, StagePrompt(k, locals[r], service_type[r], input_data[r]))]
    /\ trace' = [trace EXCEPT ![r] = Append(@, Call(k))]
    /\ pc' = [pc EXCEPT ![r] = At("wait", k)]
    /\ UNCHANGED <<downloadVars, mainVars, teamVars, clock, received, service_type,
                   input_data, workflow_log, locals, result, caught,
                   outcome, returned>>

(* the stage method raises while building its prompt; lines 65-73, 85-93,  *)
(* 105-113 bind the fallback text and append an error step                 *)
stage_raises(r) ==
    LET k == pc[r].stage IN
    /\ pc[r].loc = "invoke"
    /\ PromptBuildRaises(service_type[r], input_data[r])
    /\ trace' = [trace EXCEPT ![r] = @ \o <<Call(k), Raised(k)>>]
    /\ locals' = [locals EXCEPT ![r] = Bind(@, LocalName(k), StageFallback(k))]
    /\ workflow_log' = [workflow_log EXCEPT ![r].steps =
                          Append(@, ErrorStep(k, ATTRIBUTE_ERROR))]
    /\ pc' = [pc EXCEPT ![r] = AfterStage(k)]
    /\ UNCHANGED <<downloadVars, mainVars, teamVars, clock, received, service_type,
                   input_data, result, caught, sent, outcome, returned>>

(* variant of Receive: the step is appended to the log of every call      *)
(* under way, as if the log were an attribute of the coordinator           *)
Receive_shared_log(r, o) ==
    LET k == pc[r].stage IN
    /\ pc[r].loc = "wait"
    /\ outcome' = [outcome EXCEPT ![r] = Bind(@, k, o)]
    /\ returned' = [returned EXCEPT ![r] = Bind(@, k, StageReturn(k, o))]
    /\ trace' = [trace EXCEPT ![r] = Append(@, Returned(k))]
    /\ locals' = [locals EXCEPT ![r] = Bind(@, LocalName(k), StageReturn(k, o))]
    /\ workflow_log' = [q \in Runs |->
                          IF pc[q].loc \in {"progress", "invoke", "wait", "finish"}
                            THEN [workflow_log[q] EXCEPT
                                    !.steps = Append(@, SuccessStep(k))]
                            ELSE workflow_log[q]]
    /\ pc' = [pc EXCEPT ![r] = AfterStage(k)]
    /\ UNCHANGED <<mainVars, teamVars, clock, received, service_type,
                   input_data, result, caught, sent>>

(* lines 187-194, 350-357, 533-540 and the coordinator's lines 59-64,      *)
(* 79-84, 99-104: the external call ends with outcome o, the stage method  *)
(* returns, the coordinator binds the text and appends a success step      *)
Receive(r, o) ==
    LET k == pc[r].stage IN
    /\ pc[r].loc = "wait"
    /\ outcome' = [outcome EXCEPT ![r] = Bind(@, k, o)]
    /\ returned' = [returned EXCEPT ![r] = Bind(@, k, StageReturn(k, o))]
    /\ trace' = [trace EXCEPT ![r] = Append(@, Returned(k))]
    /\ locals' = [locals EXCEPT ![r] = Bind(@, LocalName(k), StageReturn(k, o))]
    /\ workflow_log' = [workflow_log EXCEPT ![r].steps = Append(@, SuccessStep(k))]
    /\ pc' = [pc EXCEPT ![r] = AfterStage(k)]
    /\ UNCHANGED <<mainVars, teamVars, clock, received, service_type,
                   input_data, result, caught, sent>>

stage_receive(r, o) ==
    /\ Receive(r, o)
    /\ UNCHANGED downloadVars

(* the external call of the implementation stage ends with a text made of  *)
(* paragraphs and fenced code blocks                                       *)
stage_receive_reply(r, items) ==
    /\ pc[r].stage = 3
    /\ Receive(r, TextOutcome(Render(items)))
    /\ reply' = items
    /\ download' = download

(* variant of finish: the coordinator's list is replaced by a list holding *)
(* the new entry alone                                                     *)
finish_overwrites(r) ==
    /\ pc[r].loc = "finish"
    /\ workflow_logs' = <<workflow_log[r]>>
    /\ result' = [result EXCEPT ![r] = AdviceResult(locals[r])]
    /\ pc' = [pc EXCEPT ![r] = At("returned", 3)]
    /\ outcome' = [outcome EXCEPT ![r] = EmptyDict]
    /\ UNCHANGED <<downloadVars, mainVars, team, clock, received, service_type, input_data,
                   workflow_log, locals, caught, trace, sent, returned>>

(* lines 116-123: the log is stored and the three texts are returned *)
finish(r) ==
    /\ pc[r].loc = "finish"
    /\ workflow_logs' = Append(workflow_logs, workflow_log[r])
    /\ result' = [result EXCEPT ![r] = AdviceResult(locals[r])]
    /\ pc' = [pc EXCEPT ![r] = At("returned", 3)]
    /\ outcome' = [outcome EXCEPT ![r] = EmptyDict]
    /\ UNCHANGED <<downloadVars, mainVars, team, clock, received, service_type, input_data,
                   workflow_log, locals, caught, trace, sent, returned>>

(* the caller takes the returned dict; the frame of the call is gone *)
Collect(r) ==
    /\ pc[r].loc = "returned"
    /\ received' = [kind |-> "result", value |-> result[r]]
    /\ pc' = [pc EXCEPT ![r] = At("done", 0)]
    /\ service_type' = [service_type EXCEPT ![r] = ""]
    /\ input_data' = [input_data EXCEPT ![r] = NotADict]
    /\ workflow_log' = [workflow_log EXCEPT ![r] = NoLog]
    /\ locals' = [locals EXCEPT ![r] = EmptyDict]
    /\ result' = [result EXCEPT ![r] = EmptyDict]
    /\ caught' = [caught EXCEPT ![r] = FALSE]
    /\ trace' = [trace EXCEPT ![r] = <<>>]
    /\ sent' = [sent EXCEPT ![r] = EmptyDict]
    /\ outcome' = [outcome EXCEPT ![r] = EmptyDict]
    /\ returned' = [returned EXCEPT ![r] = EmptyDict]
    /\ UNCHANGED <<teamVars, clock>>

(* main(): lines 933-939, 985-992, 1063-1067, 1123-1127 render the result; *)
(* the code-generation block goes on to lines 994-1017                     *)
main_show(r) ==
    /\ mainPc = "running"
    /\ Collect(r)
    /\ mainPc' = "shown"
    /\ form' = form
    /\ reply' = reply
    /\ download' = IF form.service = SVC_CODE
                     THEN CodeDownload(result[r]["implementation"],
                                       Get(form.input_data, "programming_language"))
                     ELSE download

host_collect(r) ==
    /\ team.owner = "host"
    /\ Collect(r)
    /\ UNCHANGED <<mainVars, downloadVars>>

Next ==
    \/ \E key \in ApiKeys : main_api_key(key)
    \/ \E sv \in KnownServices, a \in FormTexts, b \in FormTexts, c \in BOOLEAN :
          main_form(sv, a, b, c)
    \/ main_construct
    \/ main_construct_raises
    \/ \E key \in HostApiKeys : host_construct(key)
    \/ \E key \in HostApiKeys : host_construct_raises(key)
    \/ \E r \in Runs : main_call(r)
    \/ \E r \in Runs, c \in HostCalls : host_call(r, c[1], c[2])
    \/ \E r \in Runs : progress(r)
    \/ \E r \in Runs : stage_send(r)
    \/ \E r \in Runs : stage_raises(r)
    \/ \E r \in Runs, o \in ExternalOutcomes : stage_receive(r, o)
    \/ \E r \in Runs : finish(r)
    \/ \E r \in Runs : top_level_except(r)
    \/ \E r \in Runs : main_show(r)
    \/ \E r \in Runs : host_collect(r)

Spec == Init /\ [][Next]_vars

(* main() on the code-generation form, the external service answering the  *)
(* implementation stage with paragraphs and fenced code blocks             *)
NextDownload ==
    \/ \E key \in HostApiKeys : main_api_key(key)
    \/ \E language \in LanguageNames : main_form(SVC_CODE, <<"u1">>, language, TRUE)
    \/ main_construct
    \/ \E r \in Runs : main_call(r)
    \/ \E r \in Runs : progress(r)
    \/ \E r \in Runs : stage_send(r)
    \/ \E r \in Runs : pc[r].stage < 3 /\ stage_receive(r, TextOutcome(<<"g">>))
    \/ \E r \in Runs, items \in Replies : stage_receive_reply(r, items)
    \/ \E r \in Runs : finish(r)
    \/ \E r \in Runs : main_show(r)

SpecDownload == Init /\ [][NextDownload]_vars

(* two threads of a host program calling get_coding_advice on one          *)
(* coordinator, their steps interleaved in any way                         *)
ConcurrentRuns == {1, 2}

ConcurrentCalls ==
    { <<SVC_CONCEPT, NotADict>>, <<SVC_OTHER, DictOf(EmptyDict)>> }

ConcurrentOutcomes ==
    { TextOutcome(<<"g">>) } \cup { RaiseOutcome(t) : t \in ExceptionTexts }

NextConcurrent ==
    \/ \E key \in HostApiKeys : host_construct(key)
    \/ \E r \in ConcurrentRuns, c \in ConcurrentCalls :
          host_call_concurrent(r, c[1], c[2])
    \/ \E r \in ConcurrentRuns : progress(r)
    \/ \E r \in ConcurrentRuns : stage_send(r)
    \/ \E r \in ConcurrentRuns : stage_raises(r)
    \/ \E r \in ConcurrentRuns, o \in ConcurrentOutcomes : stage_receive(r, o)
    \/ \E r \in ConcurrentRuns : finish(r)
    \/ \E r \in ConcurrentRuns : top_level_except(r)
    \/ \E r \in ConcurrentRuns : host_collect(r)

SpecConcurrent == Init /\ [][NextConcurrent]_vars

(* the steps of call r of get_coding_advice: the interpreter executes its  *)
(* next statement, or the external call it waits for returns or raises     *)
RunStep(r) ==
    \/ progress(r)
    \/ stage_send(r)
    \/ stage_raises(r)
    \/ \E o \in ExternalOutcomes : stage_receive(r, o)
    \/ finish(r)
    \/ top_level_except(r)

(* ============================ properties =============================== *)
ResultKeys == {"concept", "prompt", "implementation"}

IsText(v) == v \in Seq(STRING)

HasReturned(r) == pc[r].loc = "returned"

(* the result field that carries stage k's text *)
ResultKey(k) ==
    CASE k = 1 -> "concept"
      [] k = 2 -> "prompt"
      [] k = 3 -> "implementation"

(* C1: whenever get_coding_advice has returned, whatever the category, the *)
(* request and the outcomes of the three external calls were, the returned *)
(* dict has exactly the keys concept, prompt and implementation and each   *)
(* of them holds a text.                                                   *)
C1_ThreeTextFields ==
    \A r \in Runs :
        HasReturned(r) =>
            /\ DOMAIN result[r] = ResultKeys
            /\ \A f \in ResultKeys : IsText(result[r][f])

(* C1 witness: a call returned normally after its first external call      *)
(* raised, its second gave no text and its third gave text.                *)
C1_Witness ==
    \E r \in Runs :
        /\ HasReturned(r)
        /\ ~ caught[r]
        /\ result[r]["concept"] = <<"concept_error_prefix", "e1", "e2">>
        /\ result[r]["prompt"] = NO_RESPONSE_MESSAGE
        /\ result[r]["implementation"] = <<"g">>

(* C2: the prompt the design stage gives to the service contains the text  *)
(* the explain stage returned, and the prompt the implement stage gives    *)
(* contains the text the design stage returned, whether that text was      *)
(* generated, an error message or the no-response message.                 *)
C2_PriorTextInPrompt ==
    \A r \in Runs : \A k \in {2, 3} :
        k \in DOMAIN sent[r] =>
            /\ (k - 1) \in DOMAIN returned[r]
            /\ Contains(sent[r][k], returned[r][k - 1])

(* C2 witness: the implement prompt was sent in a call whose explain stage *)
(* returned its error message and whose design stage returned the          *)
(* no-response message.                                                    *)
C2_Witness ==
    \E r \in Runs :
        /\ 3 \in DOMAIN sent[r]
        /\ returned[r][1] = <<"concept_error_prefix", "e1", "e2">>
        /\ returned[r][2] = NO_RESPONSE_MESSAGE

(* the stage calls of a trace, in order *)
CallsOf(tr) == SelectSeq(tr, LAMBDA e : e.ev = "call")

(* a trace in which call k is at position 2k-1 and its completion at 2k *)
InStageOrder(tr) ==
    /\ Len(tr) <= 6
    /\ \A i \in 1..Len(tr) :
          IF i % 2 = 1
            THEN tr[i] = Call((i + 1) \div 2)
            ELSE tr[i] \in {Returned(i \div 2), Raised(i \div 2)}

PastLastStage(r) == pc[r].loc \in {"finish", "returned"}

(* C3 as stated: in every call that has returned, the stage calls are      *)
(* exactly explain, design, implement.                                     *)
C3_EveryRunInvokesAll ==
    \A r \in Runs :
        HasReturned(r) =>
            CallsOf(trace[r]) = <<Call(1), Call(2), Call(3)>>

(* C3 amended: in every call the stage calls made so far are explain,      *)
(* design, implement in that order, each at most once and each begun only  *)
(* after the previous one ended; a call that got past the last stage       *)
(* without the top-level except clause made all three, each exactly once,  *)
(* whatever the outcomes of the earlier stages were.                       *)
C3_StageOrder ==
    \A r \in Runs :
        /\ InStageOrder(trace[r])
        /\ (PastLastStage(r) /\ ~ caught[r]) =>
              /\ Len(trace[r]) = 6
              /\ CallsOf(trace[r]) = <<Call(1), Call(2), Call(3)>>

(* C3 witness: all three stages were called and the call returned normally *)
(* although the first external call raised and the second gave no text.    *)
C3_Witness ==
    \E r \in Runs :
        /\ HasReturned(r)
        /\ ~ caught[r]
        /\ CallsOf(trace[r]) = <<Call(1), Call(2), Call(3)>>
        /\ DOMAIN returned[r] = Stages
        /\ returned[r][1] = <<"concept_error_prefix", "e1", "e2">>
        /\ returned[r][2] = NO_RESPONSE_MESSAGE

(* C4: when the external call of a stage raises, the stage method returns  *)
(* (it does not raise) and the text it returns contains str(e).            *)
C4_ErrorTextReturned ==
    \A r \in Runs : \A k \in DOMAIN outcome[r] :
        outcome[r][k].kind = "raise" =>
            /\ k \in DOMAIN returned[r]
            /\ Contains(returned[r][k], outcome[r][k].text)
            /\ trace[r][2 * k] = Returned(k)

(* C4 witness: the external call of explain raised in a call for an        *)
(* unrecognized category.                                                  *)
C4_Witness ==
    \E r \in Runs :
        /\ 1 \in DOMAIN outcome[r]
        /\ outcome[r][1] = RaiseOutcome(<<"e1", "e2">>)
        /\ service_type[r] = SVC_OTHER

(* C5 as stated: when the external call of a stage raised, the step the    *)
(* coordinator appended for that stage has status error.                   *)
C5_FailureRecorded ==
    \A r \in Runs : \A k \in DOMAIN outcome[r] :
        outcome[r][k].kind = "raise" =>
            /\ Len(workflow_log[r].steps) >= k
            /\ workflow_log[r].steps[k].status = "error"

(* C6: when the external call returns without raising and the response is  *)
(* null or has no text, the stage returns the no-response message, the     *)
(* same one for every stage and category.                                  *)
C6_NoResponseMessage ==
    \A r \in Runs : \A k \in DOMAIN outcome[r] :
        LET o == outcome[r][k] IN
        (o.kind \in {"null_response", "null_text"}
           \/ (o.kind = "text" /\ o.text = <<>>)) =>
            /\ k \in DOMAIN returned[r]
            /\ returned[r][k] = <<"no_response_from_model_retry">>

(* C6 witness: the design stage got a null response in a call for an       *)
(* unrecognized category.                                                  *)
C6_Witness ==
    \E r \in Runs :
        /\ 2 \in DOMAIN outcome[r]
        /\ outcome[r][2] = NullRespOutcome
        /\ service_type[r] = SVC_OTHER

(* C7: when the external call of a stage returns non-empty text the stage  *)
(* returns that text unchanged, and when the call returns without the      *)
(* top-level except clause each result field equals the text its stage     *)
(* returned.                                                               *)
C7_TextVerbatim ==
    \A r \in Runs :
        /\ \A k \in DOMAIN outcome[r] :
              (outcome[r][k].kind = "text" /\ outcome[r][k].text # <<>>) =>
                  /\ k \in DOMAIN returned[r]
                  /\ returned[r][k] = outcome[r][k].text
        /\ (HasReturned(r) /\ ~ caught[r]) =>
              \A k \in DOMAIN returned[r] :
                  result[r][ResultKey(k)] = returned[r][k]

(* C7 witness: a call returned normally with generated text in the first   *)
(* field and the no-response message in the second.                        *)
C7_Witness ==
    \E r \in Runs :
        /\ HasReturned(r)
        /\ ~ caught[r]
        /\ DOMAIN returned[r] = Stages
        /\ result[r]["concept"] = <<"g">>
        /\ result[r]["prompt"] = NO_RESPONSE_MESSAGE

(* the entries of self.workflow_logs made by call r *)
EntriesOf(r) ==
    { i \in 1..Len(workflow_logs) :
        workflow_logs[i].timestamp = workflow_log[r].timestamp }

(* C8: when the top-level except clause ran, the returned dict has the     *)
(* same system-error message in all three fields, however many stages had  *)
(* produced text, and self.workflow_logs has no entry of that call.        *)
C8_SystemErrorResult ==
    \A r \in Runs :
        (HasReturned(r) /\ caught[r]) =>
            /\ \A f \in ResultKeys :
                  result[r][f] = <<"system_error_check_api_key_retry">>
            /\ EntriesOf(r) = {}

(* C8 witness: the except clause ran after all three stages had produced   *)
(* text.                                                                   *)
C8_Witness ==
    \E r \in Runs :
        /\ HasReturned(r)
        /\ caught[r]
        /\ DOMAIN returned[r] = Stages

(* C9 as stated: when the setup of the coordinator fails, the caller gets  *)
(* no exception but the system-error dict.                                 *)
C9_SetupFailureContained ==
    team.state = "init_raised" =>
        /\ received.kind = "result"
        /\ received.value = SystemErrorResult

(* C10: a call that returned without the top-level except clause has made  *)
(* exactly one entry in self.workflow_logs, the last one, with exactly     *)
(* three steps, for ConceptCoach, PromptEngineeringCoach and               *)
(* ImplementationCoach in that order, each with status success or error.   *)
C10_OneLogEntryThreeSteps ==
    \A r \in Runs :
        (HasReturned(r) /\ ~ caught[r]) =>
            /\ EntriesOf(r) = {Len(workflow_logs)}
            /\ LET steps == workflow_logs[Len(workflow_logs)].steps IN
                /\ Len(steps) = 3
                /\ steps[1].coach = "ConceptCoach"
                /\ steps[2].coach = "PromptEngineeringCoach"
                /\ steps[3].coach = "ImplementationCoach"
                /\ \A i \in 1..3 : steps[i].status \in {"success", "error"}

(* C10 witness: a call returned normally and its entry has an error step.  *)
C10_Witness ==
    \E r \in Runs :
        /\ HasReturned(r)
        /\ ~ caught[r]
        /\ Len(workflow_logs) > 0
        /\ workflow_logs[Len(workflow_logs)].steps[2].status = "error"

(* the calls that return in this step without the top-level except clause  *)
ReturnsNormally(r) ==
    /\ pc[r].loc # "returned"
    /\ pc'[r].loc = "returned"
    /\ ~ caught'[r]

(* C11: self.workflow_logs only grows at its end.  A step in which a call  *)
(* returns without the top-level except clause appends exactly that call's *)
(* entry after the entries already there; every other step, a return       *)
(* through the except clause included, leaves the list as it is.  So the   *)
(* length is the number of calls that returned normally, the entries       *)
(* stand in the order of those returns, and no earlier entry is removed or *)
(* changed.                                                                *)
C11_LogAppendOnly ==
    [][ /\ \A i \in 1..Len(workflow_logs) :
              /\ i <= Len(workflow_logs')
              /\ workflow_logs'[i] = workflow_logs[i]
        /\ \A r \in Runs :
              ReturnsNormally(r) =>
                  workflow_logs' = Append(workflow_logs, workflow_log[r])
        /\ (\A r \in Runs : ~ ReturnsNormally(r)) =>
                  workflow_logs' = workflow_logs ]_vars

(* C11 witness: on one instance the first call returned normally and was   *)
(* collected, the second returned through the except clause, and the list  *)
(* holds the first call's entry alone.                                     *)
C11_Witness ==
    /\ MaxRuns >= 2
    /\ pc[1].loc = "done"
    /\ pc[2].loc = "returned"
    /\ caught[2]
    /\ Len(workflow_logs) = 1
    /\ workflow_logs[1].timestamp = 1

(* a request that is a dict whose fields are all empty strings or missing *)
AllEmptyOrMissing(data) ==
    /\ data.isdict
    /\ \A f \in DOMAIN data.d : data.d[f] = <<>>

(* the part of the prompt sent by stage k of call r that the category      *)
(* template produced: what stands between the persona preamble (with the   *)
(* prior output, for stages 2 and 3) and the output-format directive       *)
CategoryStart(r, k) ==
    IF k = 1 THEN 2 ELSE Len(PriorOutput(k, locals[r])) + 4

CategoryPart(r, k) == SubSeq(sent[r][k], CategoryStart(r, k), Len(sent[r][k]) - 1)

(* the fixed text of the category template of stage k, nothing interpolated *)
FixedTemplateText(k, st) ==
    CASE k = 1 /\ st = SVC_CONCEPT  -> <<"concept_q_head", "concept_q_items">>
      [] k = 1 /\ st = SVC_PROJECT  -> <<"concept_project_head", "concept_project_stack",
                                         "concept_project_items">>
      [] k = 1 /\ st = SVC_CODE     -> <<"concept_code_head", "concept_code_language",
                                         "concept_code_items">>
      [] k = 1 /\ st = SVC_LEARNING -> <<"concept_learning_head", "concept_learning_goals",
                                         "concept_learning_items">>
      [] k = 2 /\ st = SVC_CONCEPT  -> <<"design_q_items">>
      [] k = 2 /\ st = SVC_PROJECT  -> <<"design_project_items", "design_project_stack">>
      [] k = 2 /\ st = SVC_CODE     -> <<"design_code_items_1", "design_code_items_2",
                                         "design_code_language">>
      [] k = 2 /\ st = SVC_LEARNING -> <<"design_learning_items", "design_learning_goals">>
      [] k = 3 /\ st = SVC_CONCEPT  -> <<"implement_q_items">>
      [] k = 3 /\ st = SVC_PROJECT  -> <<"implement_project_items",
                                         "implement_project_stack">>
      [] k = 3 /\ st = SVC_CODE     -> <<"implement_code_items", "implement_code_language">>
      [] k = 3 /\ st = SVC_LEARNING -> <<"implement_learning_items",
                                         "implement_learning_goals">>

(* C12: in a call for one of the four known categories whose request is a  *)
(* dict with every field empty or missing, no stage raises while building  *)
(* its prompt, every stage that was invoked sent a prompt, and the part of *)
(* that prompt made by the category template is non-empty: it is the       *)
(* template's fixed text with nothing in the place of each field.          *)
C12_EmptyFieldsTemplate ==
    \A r \in Runs :
        (service_type[r] \in KnownServices /\ AllEmptyOrMissing(input_data[r])) =>
            /\ \A i \in 1..Len(trace[r]) :
                  /\ trace[r][i].ev # "raise"
                  /\ trace[r][i].ev = "call" => trace[r][i].stage \in DOMAIN sent[r]
            /\ \A k \in DOMAIN sent[r] :
                  /\ CategoryPart(r, k) # <<>>
                  /\ CategoryPart(r, k) = FixedTemplateText(k, service_type[r])

(* C12 witness: a learning-plan call with a dict that has no field at all  *)
(* has sent the prompts of all three stages.                               *)
C12_Witness ==
    \E r \in Runs :
        /\ service_type[r] = SVC_LEARNING
        /\ input_data[r] = DictOf(EmptyDict)
        /\ DOMAIN sent[r] = Stages

(* the first words of the generic template of stage k (lines 286, 462, 645) *)
GenericHead(k) ==
    CASE k = 1 -> "concept_general_head"
      [] k = 2 -> "design_general_head"
      [] k = 3 -> "implement_general_head"

(* the words of the category-specific templates of the three stages *)
SpecificTemplateWords ==
    UNION { { FixedTemplateText(k, st)[i] : i \in 1..Len(FixedTemplateText(k, st)) } :
            k \in Stages, st \in KnownServices }

(* C13: in a call whose category is none of the four known ones, every     *)
(* stage that was invoked sent a prompt made by its generic template: the  *)
(* template part begins with the generic template's words followed by the  *)
(* category tag, so the prompt contains the tag, and no word of a          *)
(* category-specific template occurs anywhere in the prompt.               *)
C13_GenericTemplate ==
    \A r \in Runs :
        (pc[r].loc \notin {"idle", "done"} /\ service_type[r] \notin KnownServices) =>
            /\ \A i \in 1..Len(trace[r]) :
                  trace[r][i].ev = "call" => trace[r][i].stage \in DOMAIN sent[r]
            /\ \A k \in DOMAIN sent[r] :
                  /\ Len(sent[r][k]) > CategoryStart(r, k)
                  /\ sent[r][k][CategoryStart(r, k)] = GenericHead(k)
                  /\ sent[r][k][CategoryStart(r, k) + 1] = service_type[r]
                  /\ \A i \in 1..Len(sent[r][k]) :
                        sent[r][k][i] \notin SpecificTemplateWords

(* C13 witness: a call with an unrecognized category and a dict of         *)
(* non-empty fields has sent the prompts of all three stages.              *)
C13_Witness ==
    \E r \in Runs :
        /\ service_type[r] = SVC_OTHER
        /\ input_data[r].isdict
        /\ "question" \in DOMAIN input_data[r].d
        /\ input_data[r].d["question"] # <<>>
        /\ DOMAIN sent[r] = Stages

(* the bodies of the fenced code blocks of the implementation text, in the *)
(* order in which the service wrote them                                   *)
RECURSIVE BlockBodiesOf(_)
BlockBodiesOf(items) ==
    IF items = <<>> THEN <<>>
    ELSE (IF Head(items).kind = "block" THEN <<Head(items).body>> ELSE <<>>)
         \o BlockBodiesOf(Tail(items))

(* C14 as stated: once main() has shown the result of a code-generation    *)
(* run, the download holds the bodies of all fenced code blocks of the     *)
(* implementation text, with or without a language tag, in their order,    *)
(* joined by a blank line; with no fenced block nothing is offered.        *)
C14_AllBlocksExtracted ==
    (mainPc = "shown" /\ form.service = SVC_CODE) =>
        IF BlockBodiesOf(reply) = <<>>
          THEN download.state = "none"
          ELSE /\ download.state = "offered"
               /\ download.data = Join(<<LF, LF>>, BlockBodiesOf(reply))

(* the same name up to the case of its letters *)
SameIgnoringCase(a, b) ==
    /\ Len(a) = Len(b)
    /\ \A i \in 1..Len(a) :
          \/ a[i] = b[i]
          \/ \E j \in 1..Len(UpperCase) :
                {a[i], b[i]} = {UpperCase[j], LowerCase[j]}

(* the extension at the end of the download's file name *)
OfferedExtension == download.file_name[Len(download.file_name)]

(* C15: when a download is offered, the extension of its file name is the  *)
(* table's extension of the language name whatever the case of its         *)
(* letters, and txt for a name the table does not hold: Python, python and *)
(* PYTHON give py, TypeScript gives ts, Elixir gives txt.                  *)
C15_ExtensionLookup ==
    download.state = "offered" =>
        LET language == Get(form.input_data, "programming_language") IN
        /\ \A e \in extensions :
              SameIgnoringCase(e[1], language) => OfferedExtension = e[2]
        /\ (\A e \in extensions : ~ SameIgnoringCase(e[1], language)) =>
              OfferedExtension = "txt"
        /\ language \in { <<"P", "y", "t", "h", "o", "n">>,
                          <<"p", "y", "t", "h", "o", "n">>,
                          <<"P", "Y", "T", "H", "O", "N">> } =>
              OfferedExtension = "py"
        /\ language = <<"T", "y", "p", "e", "S", "c", "r", "i", "p", "t">> =>
              OfferedExtension = "ts"
        /\ language = <<"E", "l", "i", "x", "i", "r">> => OfferedExtension = "txt"

(* C15 witness: a download was offered for the language TypeScript. *)
C15_Witness ==
    /\ download.state = "offered"
    /\ Get(form.input_data, "programming_language") =
           <<"T", "y", "p", "e", "S", "c", "r", "i", "p", "t">>
    /\ OfferedExtension = "ts"

(* a call is under way: it was entered and has not returned *)
Running(r) == pc[r].loc \notin {"idle", "done", "returned"}

(* the statements call r has before it at most: three per stage, the       *)
(* storing of the log, the return                                          *)
StepsLeft(p) ==
    CASE p.loc = "progress" -> 3 * (3 - p.stage) + 4
      [] p.loc = "invoke"   -> 3 * (3 - p.stage) + 3
      [] p.loc = "wait"     -> 3 * (3 - p.stage) + 2
      [] p.loc = "finish"   -> 1
      [] p.loc = "returned" -> 0
      [] OTHER -> 99

(* what call r has done and holds *)
CallState(r) ==
    <<pc[r], trace[r], sent[r], outcome[r], returned[r], locals[r],
      workflow_log[r], result[r], caught[r]>>

(* C16: a call that is under way can always take a step, given that the    *)
(* external call it waits for returns or raises; every step it takes       *)
(* brings it nearer to its return, of which it is never more than ten      *)
(* steps away, so no outcome of a stage makes it loop or stop; and a call  *)
(* that returned without the top-level except clause has invoked explain,  *)
(* design and implement and returns the three result fields.               *)
C16_RunTerminates ==
    /\ [](\A r \in Runs : Running(r) => ENABLED RunStep(r))
    /\ [][ \A r \in Runs :
              (Running(r) /\ CallState(r)' # CallState(r)) =>
                  /\ StepsLeft(pc'[r]) < StepsLeft(pc[r])
                  /\ StepsLeft(pc[r]) <= 10 ]_vars
    /\ [](\A r \in Runs :
            (HasReturned(r) /\ ~ caught[r]) =>
                /\ CallsOf(trace[r]) = <<Call(1), Call(2), Call(3)>>
                /\ DOMAIN result[r] = ResultKeys)

(* C16 witness: a call returned normally after the external call of every  *)
(* stage had raised.                                                       *)
C16_Witness ==
    \E r \in Runs :
        /\ HasReturned(r)
        /\ ~ caught[r]
        /\ DOMAIN returned[r] = Stages
        /\ \A k \in Stages : returned[r][k][Len(returned[r][k])] = "e2"

(* the frame of call r exists: the call was entered and its result has not *)
(* been taken yet                                                          *)
InCall(r) == pc[r].loc \notin {"idle", "done"}

(* C17: from the entry of a call to its return no step changes the request *)
(* the call was given: input_data has the same keys and values in every    *)
(* state of the call, the state in which it has returned included, and in  *)
(* main() it stays equal to the dict main() built.                         *)
C17_RequestUnchanged ==
    [][ \A r \in Runs :
          /\ (InCall(r) /\ pc'[r].loc # "done") => input_data'[r] = input_data[r]
          /\ (pc'[r].loc \notin {"idle", "done"} /\ team.owner = "main") =>
                 /\ input_data'[r] = form'.input_data
                 /\ form'.input_data = form.input_data ]_vars

(* C17 witness: a call with a dict of one non-empty field and an           *)
(* unrecognized category returned normally after all three stages.         *)
C17_Witness ==
    \E r \in Runs :
        /\ HasReturned(r)
        /\ ~ caught[r]
        /\ DOMAIN sent[r] = Stages
        /\ input_data[r] = DictOf([f \in TemplateFields |-> <<"u1">>])

(* the status of the step of stage k that call r's own history calls for *)
OwnStatus(r, k) == IF trace[r][2 * k] = Raised(k) THEN "error" ELSE "success"

(* C18: with two calls interleaved on one coordinator, every entry of      *)
(* self.workflow_logs has exactly three steps, of the three coaches in     *)
(* stage order; a call that returned normally has exactly one entry, which *)
(* is its own local log, with its own category and with the status its own *)
(* stage calls had in each step; a call the except clause ended has none;  *)
(* and there are no more entries than calls that returned normally.        *)
C18_EntriesNotMixed ==
    /\ \A i \in 1..Len(workflow_logs) :
          /\ Len(workflow_logs[i].steps) = 3
          /\ \A k \in Stages :
                /\ workflow_logs[i].steps[k].coach = CoachName(k)
                /\ workflow_logs[i].steps[k].action = StepAction(k)
    /\ \A r \in Runs :
          /\ (HasReturned(r) /\ ~ caught[r]) =>
                /\ Cardinality(EntriesOf(r)) = 1
                /\ \A i \in EntriesOf(r) :
                      /\ workflow_logs[i] = workflow_log[r]
                      /\ workflow_logs[i].service_type = service_type[r]
                      /\ \A k \in Stages :
                            workflow_logs[i].steps[k].status = OwnStatus(r, k)
          /\ (InCall(r) /\ ~ (HasReturned(r) /\ ~ caught[r])) => EntriesOf(r) = {}
    /\ Len(workflow_logs) <=
          Cardinality({ r \in Runs : \/ pc[r].loc = "done"
                                     \/ HasReturned(r) /\ ~ caught[r] })

(* C18 witness: two calls overlapped, the one entered second stored its    *)
(* entry first, and the two entries differ in the status of their steps.   *)
C18_Witness ==
    /\ HasReturned(1) /\ ~ caught[1]
    /\ HasReturned(2) /\ ~ caught[2]
    /\ Len(workflow_logs) = 2
    /\ workflow_logs[1] = workflow_log[2]
    /\ workflow_logs[2] = workflow_log[1]
    /\ workflow_logs[1].steps[1].status = "error"
    /\ workflow_logs[2].steps[1].status = "success"

(* the stage method of stage k raised in call r *)
StageRaised(r, k) == Len(trace[r]) >= 2 * k /\ trace[r][2 * k] = Raised(k)

(* C19: when the stage method of stage k itself raised, the coordinator    *)
(* bound that stage's own fixed fallback text, which holds nothing of the  *)
(* exception's text, appended for the stage a step with status error and   *)
(* the exception's text as detail, and, unless the top-level except clause *)
(* ended the call, went on to invoke the next stage with that fallback as  *)
(* the prior output; the fallback is the stage's field of the result.      *)
C19_StageRaiseContained ==
    \A r \in Runs : \A k \in Stages :
        StageRaised(r, k) =>
            LET fallback == CASE k = 1 -> <<"concept_analysis_failed_retry">>
                              [] k = 2 -> <<"prompt_design_failed_retry">>
                              [] k = 3 -> <<"implementation_failed_retry">>
            IN
            /\ locals[r][LocalName(k)] = fallback
            /\ \A i \in 1..Len(ATTRIBUTE_ERROR) :
                  ~ Contains(locals[r][LocalName(k)], <<ATTRIBUTE_ERROR[i]>>)
            /\ Len(workflow_log[r].steps) >= k
            /\ workflow_log[r].steps[k] =
                  [coach |-> CoachName(k), action |-> StepAction(k),
                   status |-> "error", error |-> ATTRIBUTE_ERROR]
            /\ (k < 3 /\ Len(trace[r]) > 2 * k) =>
                  /\ trace[r][2 * k + 1] = Call(k + 1)
                  /\ PriorOutput(k + 1, locals[r]) = fallback
            /\ (k < 3 /\ Len(trace[r]) = 2 * k) =>
                  \/ pc[r] = At("progress", k + 1)
                  \/ pc[r] = At("invoke", k + 1)
                  \/ HasReturned(r) /\ caught[r]
            /\ (HasReturned(r) /\ ~ caught[r]) => result[r][ResultKey(k)] = fallback

(* C19 witness: a call returned normally after the stage methods of the    *)
(* first and of the last stage had raised.                                 *)
C19_Witness ==
    \E r \in Runs :
        /\ HasReturned(r)
        /\ ~ caught[r]
        /\ StageRaised(r, 1)
        /\ StageRaised(r, 3)

(* the field of the dict main() built is not empty *)
Filled(field) ==
    /\ form.input_data.isdict
    /\ field \in DOMAIN form.input_data.d
    /\ form.input_data.d[field] # <<>>

(* the API key has at least 20 characters and the required fields of the   *)
(* selected category are filled                                            *)
MainInputsAccepted ==
    /\ Len(team.api_key) >= 20
    /\ CASE form.service = SVC_CONCEPT  -> Filled("question")
          [] form.service = SVC_CODE     -> Filled("code_request")
                                            /\ Filled("programming_language")
          [] form.service = SVC_PROJECT  -> Filled("project_description")
                                            /\ Filled("tech_stack")
          [] form.service = SVC_LEARNING -> Filled("learning_goals")
                                            /\ Filled("preferred_languages")
          [] OTHER -> FALSE

(* C20: in main() the coordinator is constructed, a call of                *)
(* get_coding_advice is entered and a prompt is sent to the external       *)
(* service only when the API key has at least 20 characters and the        *)
(* required fields of the selected category are non-empty; otherwise none  *)
(* of the three happens.                                                   *)
C20_MainGuards ==
    ( /\ team.owner # "host"
      /\ \/ team.state # "none"
         \/ mainPc \in {"construct", "call", "running", "shown", "crashed"}
         \/ \E r \in Runs : InCall(r) \/ DOMAIN sent[r] # {} )
    => MainInputsAccepted

(* C20 witness: main() with the learning-plan form filled in has sent the  *)
(* first prompt to the external service.                                   *)
C20_Witness ==
    /\ team.owner = "main"
    /\ mainPc = "running"
    /\ form.service = SVC_LEARNING
    /\ \E r \in Runs : DOMAIN sent[r] # {}

====
